---- MODULE Spec2Model ----
(***************************************************************************)
(* Model of src/main.py: a FastAPI application that lists the DASH videos  *)
(* found under the directory "videos" (GET / and GET /api/videos) and      *)
(* serves their files (GET /videos/{video_name}/{mpd_file} and the         *)
(* StaticFiles mount at /videos).                                          *)
(*                                                                         *)
(* Strings are sequences of one-character strings, so that concatenation,  *)
(* splitting on "/", suffix tests and code-point ordering are computed as  *)
(* Python computes them.  The filesystem is a tree of nodes named by their *)
(* absolute paths; the process runs in the directory Cwd, two levels below *)
(* the root, and a path string is resolved component by component from     *)
(* there, as the kernel resolves it.                                       *)
(***************************************************************************)
EXTENDS Integers, Sequences, FiniteSets, TLC

VARIABLES
    fs,           \* the filesystem: node path -> NoNode | DirNode | FileNode(bytes)
    req,          \* the request being answered (Spec), or NoReq
    resp,         \* its response (Spec), or NoResp
    pending,      \* the FileResponse a handler returned and the server has yet to
                  \* send (Spec), or NoPending
    pc,           \* SpecConc: per worker, the position inside the listing handler
    creq,         \* SpecConc: per worker, the request it is handling
    listing,      \* SpecConc: per worker, what os.listdir returned
    video_dirs,   \* SpecConc: per worker, the local video_dirs
    videos_data,  \* SpecConc: per worker, the local videos_data
    cresp,        \* SpecConc: per worker, the response it returned
    observed,     \* SpecConc (history): per worker, what each os.path.exists returned
    live          \* SpecConc (history): per worker, the directories whose manifest
                  \* existed at some moment since the request began

vars == <<fs, req, resp, pending, pc, creq, listing, video_dirs, videos_data, cresp, observed, live>>

(***************************************************************************)
(* Strings                                                                 *)
(***************************************************************************)
Slash == <<"/">>
Dot == <<".">>
DotDot == <<".", ".">>
Empty == <<>>
videos == <<"v", "i", "d", "e", "o", "s">>
export == <<"e", "x", "p", "o", "r", "t">>
MpdExt == <<".", "m", "p", "d">>
ab == <<"a", "b">>
a_c == <<"a", "_", "c">>
nn == <<"n">>
seg == <<"s", "e", "g", ".", "m", "4", "s">>
mainpy == <<"m", "a", "i", "n", ".", "p", "y">>
srv == <<"s", "r", "v">>
app == <<"a", "p", "p">>

\* Unicode code points of the characters that occur in directory names.
CodePoint ==
    ("." :> 46) @@ ("4" :> 52) @@ ("_" :> 95) @@ ("a" :> 97) @@ ("b" :> 98) @@
    ("c" :> 99) @@ ("d" :> 100) @@ ("e" :> 101) @@ ("m" :> 109) @@ ("n" :> 110) @@
    ("o" :> 111) @@ ("p" :> 112) @@ ("r" :> 114) @@ ("s" :> 115) @@ ("t" :> 116) @@
    ("x" :> 120) @@ ("y" :> 121) @@ ("i" :> 105) @@ ("v" :> 118)

\* Python's str < str: lexicographic by code point, a proper prefix first.
RECURSIVE StrLess(_, _)
StrLess(s, t) ==
    IF t = <<>> THEN FALSE
    ELSE IF s = <<>> THEN TRUE
    ELSE IF CodePoint[Head(s)] # CodePoint[Head(t)]
         THEN CodePoint[Head(s)] < CodePoint[Head(t)]
         ELSE StrLess(Tail(s), Tail(t))

\* str.endswith
EndsWith(s, suffix) ==
    /\ Len(s) >= Len(suffix)
    /\ SubSeq(s, Len(s) - Len(suffix) + 1, Len(s)) = suffix

\* str.split("/"): the components between slashes, empty ones included.
RECURSIVE SplitFrom(_, _, _)
SplitFrom(s, i, cur) ==
    IF i > Len(s) THEN <<cur>>
    ELSE IF s[i] = "/" THEN <<cur>> \o SplitFrom(s, i + 1, <<>>)
    ELSE SplitFrom(s, i + 1, Append(cur, s[i]))

Split(s) == SplitFrom(s, 1, <<>>)

\* "/".join(parts)
RECURSIVE JoinSlash(_)
JoinSlash(parts) ==
    IF parts = <<>> THEN <<>>
    ELSE IF Len(parts) = 1 THEN parts[1]
    ELSE parts[1] \o Slash \o JoinSlash(Tail(parts))

\* str.replace("_", " ")
Replace(s) == [i \in 1..Len(s) |-> IF s[i] = "_" THEN " " ELSE s[i]]

Upper ==
    ("a" :> "A") @@ ("b" :> "B") @@ ("c" :> "C") @@ ("d" :> "D") @@ ("e" :> "E") @@
    ("i" :> "I") @@ ("m" :> "M") @@ ("n" :> "N") @@ ("o" :> "O") @@ ("p" :> "P") @@
    ("r" :> "R") @@ ("s" :> "S") @@ ("t" :> "T") @@ ("v" :> "V") @@ ("x" :> "X") @@
    ("y" :> "Y")

IsLower(c) == c \in DOMAIN Upper

\* str.title() on lower-case input: a letter that follows a non-letter is upper-cased.
Title(s) ==
    [i \in 1..Len(s) |->
        IF IsLower(s[i]) /\ (i = 1 \/ ~IsLower(s[i - 1])) THEN Upper[s[i]] ELSE s[i]]

(***************************************************************************)
(* The filesystem                                                          *)
(***************************************************************************)
\* How many different one-byte contents a file of the model may have; one
\* longer content stands for a file of another size.
MaxByte == 2
LongContent == <<1, 1>>

NoNode == [kind |-> "none"]
DirNode == [kind |-> "dir"]
FileNode(bytes) == [kind |-> "file", bytes |-> bytes]
Contents == {<<k>> : k \in 1..MaxByte} \cup {LongContent}

\* The working directory of the process, as an absolute path, and the
\* absolute path of a path relative to it that has no "." or "..".
Cwd == <<srv, app>>
At(rel) == Cwd \o rel

VideosRoot == At(<<videos>>)
Manifest(d) == d \o MpdExt

\* The nodes below the working directory that may exist.
Paths ==
    { At(p) : p \in
        { <<mainpy>>, <<videos>>,
          <<videos, ab>>, <<videos, ab, Manifest(ab)>>, <<videos, ab, seg>>,
          <<videos, ab, nn>>, <<videos, ab, nn, Manifest(nn)>>,
          <<videos, a_c>>, <<videos, a_c, Manifest(a_c)>>,
          <<videos, export>>, <<videos, export, Manifest(export)>> } }

Front(p) == SubSeq(p, 1, Len(p) - 1)
Last(p) == p[Len(p)]
IsPrefix(p, q) == Len(p) <= Len(q) /\ SubSeq(q, 1, Len(p)) = p

\* The node at an absolute path: the root and the directories down to the
\* working directory are directories, and nothing else is beside them.
NodeAt(f, p) == IF IsPrefix(p, Cwd) THEN DirNode ELSE IF p \in Paths THEN f[p] ELSE NoNode
IsDirNode(f, p) == NodeAt(f, p) = DirNode
Children(f, p) == {q \in Paths : Len(q) = Len(p) + 1 /\ Front(q) = p /\ f[q] # NoNode}

\* Kernel path resolution of a relative path, one component at a time from the
\* working directory: every component but the last must be a directory; ""
\* and "." stay, ".." goes to the parent (the root is its own parent).  The
\* result is the absolute path of the node reached, or Missing.
Missing == <<Empty, Empty, Empty, Empty, Empty, Empty>>

RECURSIVE Walk(_, _, _)
Walk(f, cur, comps) ==
    IF comps = <<>> THEN cur
    ELSE IF ~IsDirNode(f, cur) THEN Missing
    ELSE LET c == Head(comps) IN
         IF c = Empty \/ c = Dot THEN Walk(f, cur, Tail(comps))
         ELSE IF c = DotDot THEN Walk(f, IF cur = <<>> THEN cur ELSE Front(cur), Tail(comps))
         ELSE IF NodeAt(f, Append(cur, c)) = NoNode THEN Missing
         ELSE Walk(f, Append(cur, c), Tail(comps))

IsAbsolute(path) == path # <<>> /\ path[1] = "/"
Resolve(f, path) == Walk(f, IF IsAbsolute(path) THEN <<>> ELSE Cwd, Split(path))

\* os.path.exists, os.path.isdir, os.path.isfile, os.listdir
PathExists(f, path) == Resolve(f, path) # Missing
PathIsDir(f, path) == LET r == Resolve(f, path) IN r # Missing /\ IsDirNode(f, r)
\* os.stat and open: the node at the path now, NoNode when there is none
Stat(f, path) == LET r == Resolve(f, path) IN IF r = Missing THEN NoNode ELSE NodeAt(f, r)
ListDir(f, path) == {Last(q) : q \in Children(f, Resolve(f, path))}

\* os.path.join(a, b) for a relative b
PathJoin(a, b) == a \o Slash \o b

(***************************************************************************)
(* Requests and responses                                                  *)
(***************************************************************************)
NoReq == [path |-> Empty]
NoResp == [status |-> 0]
NoOrigin == "none"
Origins == {NoOrigin, "http://player.test"}

http == <<"h", "t", "t", "p">>
https == <<"h", "t", "t", "p", "s">>
Schemes == {http, https}
LocalHost == <<"1", "2", "7", ".", "0", ".", "0", ".", "1", ":", "8", "0", "0", "0">>
OtherHost == <<"c", "d", "n", ".", "t", "e", "s", "t">>
Hosts == {LocalHost, OtherHost}
SchemeSep == <<":", "/", "/">>
api == <<"a", "p", "i">>
test_mpd_seg == <<"t", "e", "s", "t", "-", "m", "p", "d">>

\* The URL a handler writes into an entry (lines 60 and 272).
BaseUrl == http \o SchemeSep \o LocalHost

ManifestUrl(base, d) == base \o Slash \o videos \o Slash \o d \o Slash \o d \o MpdExt

\* One element of videos_data (lines 58-62 and 270-274).
Entry(d) ==
    [name |-> d,
     mpd_file |-> ManifestUrl(BaseUrl, d),
     display_name |-> Title(Replace(d))]

\* master_mpd = os.path.join(os.path.join("videos", d), f"{d}.mpd")
MasterMpd(d) == PathJoin(PathJoin(videos, d), Manifest(d))

\* The list comprehension of line 48.
RenderKeeps(f, d) == PathIsDir(f, PathJoin(videos, d))

\* The list comprehension of line 261.
ApiKeeps(f, d) == PathIsDir(f, PathJoin(videos, d)) /\ d # export

\* Mutant: the test for the manifest is left out.
HasMasterUnchecked(f, d) == TRUE

\* The test of lines 57 and 269.
HasMaster(f, d) == PathExists(f, MasterMpd(d))

\* list.sort(key=lambda x: x["name"]): a stable insertion into sorted order.
RECURSIVE InsertByName(_, _)
InsertByName(e, sorted) ==
    IF sorted = <<>> THEN <<e>>
    ELSE IF StrLess(e.name, Head(sorted).name) THEN <<e>> \o sorted
    ELSE <<Head(sorted)>> \o InsertByName(e, Tail(sorted))

\* Mutant: the list is returned in the order it was collected.
SortSkipped(data) == data

RECURSIVE SortByName(_)
SortByName(data) ==
    IF data = <<>> THEN <<>>
    ELSE InsertByName(data[Len(data)], SortByName(SubSeq(data, 1, Len(data) - 1)))

\* video_dirs of line 48.
RenderDirs(f, listed) ==
    LET Keep(d) == RenderKeeps(f, d) IN SelectSeq(listed, Keep)

\* video_dirs of line 261.
ApiDirs(f, listed) ==
    LET Keep(d) == ApiKeeps(f, d) IN SelectSeq(listed, Keep)

\* The loop of lines 51-62 and 263-274.
CollectVideos(f, dirs) ==
    LET Keep(d) == HasMaster(f, d)
        kept == SelectSeq(dirs, Keep)
    IN [i \in 1..Len(kept) |-> Entry(kept[i])]

\* The cards of the HTML page (lines 159-173), or the "no videos" message.
Cards(data) ==
    [i \in 1..Len(data) |->
        [player |-> i - 1, title |-> data[i].display_name, mpd_file |-> data[i].mpd_file]]

\* GET /: the handler, given what os.listdir returned.
HtmlPage(data) ==
    [status |-> 200, responder |-> "render_videos", media_type |-> "text/html",
     headers |-> {}, cards |-> Cards(data), no_videos |-> data = <<>>]

render_videos(f, listed) ==
    HtmlPage(SortByName(CollectVideos(f, RenderDirs(f, listed))))

\* GET /api/videos: the handler, given what os.listdir returned.
JsonList(data) ==
    [status |-> 200, responder |-> "get_videos_list", media_type |-> "application/json",
     headers |-> {}, videos |-> data]

get_videos_list(f, listed) ==
    JsonList(SortByName(CollectVideos(f, ApiDirs(f, listed))))

(***************************************************************************)
(* File responses, the manifest route, the static mount, CORS              *)
(***************************************************************************)
NotFound(who) ==
    [status |-> 404, responder |-> who, media_type |-> "application/json",
     headers |-> {}, node |-> Missing, body |-> <<>>]

ServerError(who) ==
    [status |-> 500, responder |-> who, media_type |-> "text/plain",
     headers |-> {}, node |-> Missing, body |-> <<>>]

\* FileResponse(path, ...) as it is built: by the handler without a stat
\* result (lines 28-36), by the static mount with the stat result of its
\* lookup (line 41).  The object holds the path; nothing is read yet.
NoPending == [responder |-> "none"]
NoStat == [st_size |-> -1]
StatResult(node) == [st_size |-> Len(node.bytes)]
FileResponse(who, path, media, hdrs, stat_result) ==
    [responder |-> who, path |-> path, media_type |-> media, headers |-> hdrs,
     stat_result |-> stat_result, started |-> FALSE]
IsFileResponse(r) == "path" \in DOMAIN r

\* The sending of a FileResponse, in the three steps between which the
\* server does other things.  First, when the object has no stat result,
\* os.stat: anything but a regular file raises RuntimeError (a 500).
StatFileResponse(f, r) ==
    LET n == Stat(f, r.path) IN
    IF n.kind = "file" THEN [r EXCEPT !.stat_result = StatResult(n)]
    ELSE ServerError(r.responder)

\* Second, the start of the response: status 200 and the headers, with the
\* Content-Length of the stat result.  The tree is not looked at.
StartFileResponse(r) == [r EXCEPT !.started = TRUE]

\* Third, the file is opened and read, as it is now.  When it cannot be
\* opened the exception ends the response after its start: status 200 and
\* the Content-Length have gone out, no body follows.
BodyOfFileResponse(f, r) ==
    LET n == Stat(f, r.path) IN
    [status |-> 200, responder |-> r.responder, media_type |-> r.media_type,
     headers |-> r.headers, content_length |-> r.stat_result.st_size,
     node |-> Resolve(f, r.path),
     complete |-> n.kind = "file",
     body |-> IF n.kind = "file" THEN n.bytes ELSE <<>>]

\* Mutant: the FileResponse is built without the headers argument.
MpdHeadersOmitted == {}

MpdHeaders ==
    { <<"Cache-Control", "no-cache, no-store, must-revalidate">>,
      <<"Pragma", "no-cache">>,
      <<"Expires", "0">> }

\* file_path = f"videos/{video_name}/{mpd_file}" (line 26)
MpdFilePath(video_name, mpd_file) == videos \o Slash \o video_name \o Slash \o mpd_file

\* Mutant: the file is handed to FileResponse without the os.path.exists test.
serve_mpd_unchecked(f, video_name, mpd_file) ==
    FileResponse("serve_mpd", MpdFilePath(video_name, mpd_file),
                 "application/dash+xml", MpdHeaders, NoStat)

\* GET /videos/{video_name}/{mpd_file} (lines 23-38): what the handler
\* returns, a FileResponse still to be sent, or the 404 it raises.
serve_mpd(f, video_name, mpd_file) ==
    LET file_path == MpdFilePath(video_name, mpd_file) IN
    IF PathExists(f, file_path)
    THEN FileResponse("serve_mpd", file_path, "application/dash+xml", MpdHeaders, NoStat)
    ELSE NotFound("serve_mpd")

\* GET /test-mpd/{video_name} (lines 249-256)
test_mpd(f, video_name) ==
    LET mpd_path == MpdFilePath(video_name, Manifest(video_name)) IN
    IF PathExists(f, mpd_path)
    THEN [status |-> 200, responder |-> "test_mpd", media_type |-> "application/json",
          headers |-> {}, json_status |-> "exists", path |-> mpd_path,
          url |-> ManifestUrl(BaseUrl, video_name)]
    ELSE [status |-> 200, responder |-> "test_mpd", media_type |-> "application/json",
          headers |-> {}, json_status |-> "not_found", path |-> mpd_path]

\* os.path.normpath of a relative path, on its components.
RECURSIVE NormInto(_, _)
NormInto(out, comps) ==
    IF comps = <<>> THEN out
    ELSE LET c == Head(comps) IN
         IF c = Empty \/ c = Dot THEN NormInto(out, Tail(comps))
         ELSE IF c = DotDot /\ out # <<>> /\ Last(out) # DotDot
              THEN NormInto(Front(out), Tail(comps))
         ELSE NormInto(Append(out, c), Tail(comps))

Normpath(comps) == NormInto(<<>>, comps)

\* os.path.realpath of a path relative to the working directory (no symbolic
\* links), as an absolute path: ".." goes to the parent, and the root is its
\* own parent.
RECURSIVE RealInto(_, _)
RealInto(out, comps) ==
    IF comps = <<>> THEN out
    ELSE LET c == Head(comps) IN
         IF c = Empty \/ c = Dot THEN RealInto(out, Tail(comps))
         ELSE IF c = DotDot THEN RealInto(IF out = <<>> THEN out ELSE Front(out), Tail(comps))
         ELSE RealInto(Append(out, c), Tail(comps))

Realpath(comps) == RealInto(Cwd, comps)

\* The StaticFiles application mounted at /videos (line 41), given the
\* components of the path below the mount: normpath, then the lookup
\* (realpath, the containment check, os.stat), then a FileResponse for a
\* regular file, built with the stat result and sent later, or 404.
StaticFiles(f, rest) ==
    LET full == Realpath(<<videos>> \o Normpath(rest))
        full_path == Slash \o JoinSlash(full)
    IN
    IF ~IsPrefix(Realpath(<<videos>>), full) THEN NotFound("static")
    ELSE IF Stat(f, full_path).kind = "file"
         THEN FileResponse("static", full_path, "guessed", {}, StatResult(Stat(f, full_path)))
         ELSE NotFound("static")

\* CORSMiddleware(allow_origins=["*"], allow_credentials=True, ...) (lines
\* 11-17): a request without an Origin header passes through untouched; a 500
\* is produced outside the middleware; otherwise the simple headers are added,
\* with the origin echoed instead of "*" when the request carries a cookie.
Cors(rq, r) ==
    IF rq.origin = NoOrigin \/ r.status = 500 THEN r
    ELSE [r EXCEPT !.headers =
            @ \cup { <<"Access-Control-Allow-Origin", IF rq.cookie THEN rq.origin ELSE "*">>,
                     <<"Access-Control-Allow-Credentials", "true">> }
              \cup (IF rq.cookie THEN {<<"Vary", "Origin">>} ELSE {})]

\* The routes of main.py in the order they are registered (lines 23, 41, 43,
\* 249, 258); the first that matches the path answers.  The mount matches
\* "/videos/" and everything below it.  (The documentation routes FastAPI
\* adds by itself and the path "/videos" without a slash are not requested
\* in this model.)
Route(path) ==
    LET segs == Split(path) IN
    IF Len(segs) = 4 /\ segs[1] = Empty /\ segs[2] = videos /\ segs[3] # Empty /\ segs[4] # Empty
    THEN "serve_mpd"
    ELSE IF Len(segs) >= 3 /\ segs[1] = Empty /\ segs[2] = videos THEN "static"
    ELSE IF path = Slash THEN "render_videos"
    ELSE IF Len(segs) = 3 /\ segs[1] = Empty /\ segs[2] = test_mpd_seg /\ segs[3] # Empty
    THEN "test_mpd"
    ELSE IF segs = <<Empty, api, videos>> THEN "get_videos_list"
    ELSE "none"

(***************************************************************************)
(* Inputs                                                                  *)
(***************************************************************************)
TopNames == {ab, a_c, export}
Url(segs) == Slash \o JoinSlash(segs)

FilePaths ==
    { Url(<<videos, x, y>>) :
        x \in TopNames \cup {DotDot},
        y \in {Manifest(ab), Manifest(a_c), seg, mainpy, DotDot} }
    \cup { Url(<<videos, ab, nn, Manifest(nn)>>),
           Url(<<videos, ab, DotDot, DotDot, mainpy>>),
           Url(<<videos, DotDot, DotDot, mainpy>>),
           Url(<<videos, DotDot, DotDot, videos, ab, seg>>),
           Url(<<videos, DotDot, DotDot, app, videos, ab, seg>>),
           Url(<<videos, ab>>),
           Url(<<videos, Empty>>) }

RequestPaths ==
    FilePaths \cup {Slash, Url(<<api, videos>>), Url(<<api>>)}
    \cup {Url(<<test_mpd_seg, d>>) : d \in {ab, a_c, DotDot}}

Request(path, scheme, host, origin, cookie, listed) ==
    [path |-> path, scheme |-> scheme, host |-> host, origin |-> origin,
     cookie |-> cookie, listdir |-> listed, target |-> NoNode, statted |-> NoNode]

\* The orders in which os.listdir may return a set of names.
Orders(S) == {o \in [1..Cardinality(S) -> S] : \A i, j \in 1..Cardinality(S) : i # j => o[i] # o[j]}

(***************************************************************************)
(* The environment: another process changes the tree                       *)
(***************************************************************************)
DirPaths ==
    { At(p) : p \in
        { <<videos, ab>>, <<videos, a_c>>, <<videos, export>>, <<videos, ab, nn>>,
          <<videos, ab, Manifest(ab)>> } }

FilePathsOf(c) ==
    IF c = <<1>>
    THEN Paths \ {VideosRoot, At(<<mainpy>>), At(<<videos, ab, nn>>)}
    ELSE {At(<<videos, ab, Manifest(ab)>>)}

MkDir(p) ==
    /\ fs[p] = NoNode
    /\ IsDirNode(fs, Front(p))
    /\ fs' = [fs EXCEPT ![p] = DirNode]

WriteFile(p, c) ==
    /\ fs[p] # DirNode
    /\ fs[p] # FileNode(c)
    /\ IsDirNode(fs, Front(p))
    /\ fs' = [fs EXCEPT ![p] = FileNode(c)]

Remove(p) ==
    /\ fs[p] # NoNode
    /\ Children(fs, p) = {}
    /\ fs' = [fs EXCEPT ![p] = NoNode]

(***************************************************************************)
(* Spec: requests answered one at a time, the tree changing between them   *)
(***************************************************************************)
Workers == {1, 2}

InitConc ==
    /\ pc = [w \in Workers |-> "idle"]
    /\ creq = [w \in Workers |-> NoReq]
    /\ listing = [w \in Workers |-> <<>>]
    /\ video_dirs = [w \in Workers |-> <<>>]
    /\ videos_data = [w \in Workers |-> <<>>]
    /\ cresp = [w \in Workers |-> NoResp]
    /\ observed = [w \in Workers |-> <<>>]
    /\ live = [w \in Workers |-> {}]

Init ==
    /\ fs = [p \in Paths |-> IF p = VideosRoot THEN DirNode
                             ELSE IF p = At(<<mainpy>>) THEN FileNode(<<1>>) ELSE NoNode]
    /\ req = NoReq
    /\ resp = NoResp
    /\ pending = NoPending
    /\ InitConc

concVars == <<pc, creq, listing, video_dirs, videos_data, cresp, observed, live>>

EnvMkDir ==
    /\ resp = NoResp
    /\ \E p \in DirPaths : MkDir(p)
    /\ UNCHANGED <<req, resp, pending, concVars>>

EnvWriteFile ==
    /\ resp = NoResp
    /\ \E c \in Contents : \E p \in FilePathsOf(c) : WriteFile(p, c)
    /\ UNCHANGED <<req, resp, pending, concVars>>

EnvRemove ==
    /\ resp = NoResp
    /\ \E p \in Paths \ {VideosRoot, At(<<mainpy>>)} : Remove(p)
    /\ UNCHANGED <<req, resp, pending, concVars>>

\* No request is being answered.
Idle == resp = NoResp /\ pending = NoPending

GetIndex ==
    /\ Idle
    /\ \E scheme \in Schemes, host \in Hosts, origin \in Origins, cookie \in {FALSE} :
       \E listed \in Orders(ListDir(fs, videos)) :
          LET rq == Request(Slash, scheme, host, origin, cookie, listed) IN
          /\ Route(rq.path) = "render_videos"
          /\ req' = rq
          /\ resp' = Cors(rq, render_videos(fs, listed))
    /\ UNCHANGED <<fs, pending, concVars>>

GetApiVideos ==
    /\ Idle
    /\ \E scheme \in Schemes, host \in Hosts, origin \in Origins, cookie \in {FALSE} :
       \E listed \in Orders(ListDir(fs, videos)) :
          LET rq == Request(Url(<<api, videos>>), scheme, host, origin, cookie, listed) IN
          /\ Route(rq.path) = "get_videos_list"
          /\ req' = rq
          /\ resp' = Cors(rq, get_videos_list(fs, listed))
    /\ UNCHANGED <<fs, pending, concVars>>

\* The handler of the manifest route runs: it raises its 404, which is the
\* response, or returns a FileResponse that is sent in later steps.  (History:
\* req.target is the node that was at videos/<video_name>/<mpd_file> then.)
GetManifestRoute ==
    /\ Idle
    /\ \E path \in RequestPaths, origin \in Origins, cookie \in BOOLEAN :
          LET segs == Split(path)
              rq == [Request(path, http, LocalHost, origin, cookie, <<>>) EXCEPT
                        !.target = NodeAt(fs, Realpath(<<videos, segs[3], segs[4]>>))]
              r == serve_mpd(fs, segs[3], segs[4])
          IN
          /\ Route(path) = "serve_mpd"
          /\ req' = rq
          /\ IF IsFileResponse(r)
             THEN pending' = r /\ resp' = NoResp
             ELSE pending' = NoPending /\ resp' = Cors(rq, r)
    /\ UNCHANGED <<fs, concVars>>

\* The sending of the FileResponse begins: os.stat, when the object was
\* built without a stat result.  (History: req.statted is the kind of node
\* the stat found.)
StatFile ==
    /\ pending # NoPending
    /\ pending.stat_result = NoStat
    /\ LET r == StatFileResponse(fs, pending) IN
       IF IsFileResponse(r)
       THEN pending' = r /\ resp' = NoResp
       ELSE pending' = NoPending /\ resp' = Cors(req, r)
    /\ req' = [req EXCEPT !.statted = [kind |-> Stat(fs, pending.path).kind]]
    /\ UNCHANGED <<fs, concVars>>

\* The start of the response goes out.
SendStart ==
    /\ pending # NoPending
    /\ pending.stat_result # NoStat
    /\ ~pending.started
    /\ pending' = StartFileResponse(pending)
    /\ UNCHANGED <<fs, req, resp, concVars>>

\* The file is opened and read, or the response ends there.
SendBody ==
    /\ pending # NoPending
    /\ pending.started
    /\ resp' = Cors(req, BodyOfFileResponse(fs, pending))
    /\ pending' = NoPending
    /\ UNCHANGED <<fs, req, concVars>>

GetTestMpd ==
    /\ Idle
    /\ \E path \in RequestPaths, origin \in Origins, cookie \in {FALSE} :
          LET rq == Request(path, http, LocalHost, origin, cookie, <<>>) IN
          /\ Route(path) = "test_mpd"
          /\ req' = rq
          /\ resp' = Cors(rq, test_mpd(fs, Split(path)[3]))
    /\ UNCHANGED <<fs, pending, concVars>>

\* The static mount takes the request: its lookup answers 404, which is the
\* response, or finds a regular file and builds the FileResponse that is sent
\* in later steps.
GetStaticMount ==
    /\ Idle
    /\ \E path \in RequestPaths, origin \in Origins, cookie \in {FALSE} :
          LET rq == Request(path, http, LocalHost, origin, cookie, <<>>)
              segs == Split(path)
          IN
          /\ Route(path) = "static"
          /\ req' = rq
          /\ LET r == StaticFiles(fs, SubSeq(segs, 3, Len(segs))) IN
             IF IsFileResponse(r)
             THEN pending' = r /\ resp' = NoResp
             ELSE pending' = NoPending /\ resp' = Cors(rq, r)
    /\ UNCHANGED <<fs, concVars>>

GetUnrouted ==
    /\ Idle
    /\ \E path \in RequestPaths, origin \in Origins, cookie \in {FALSE} :
          LET rq == Request(path, http, LocalHost, origin, cookie, <<>>) IN
          /\ Route(path) = "none"
          /\ req' = rq
          /\ resp' = Cors(rq, NotFound("none"))
    /\ UNCHANGED <<fs, pending, concVars>>

\* The response has been sent; the server holds nothing of the request.
Done ==
    /\ resp # NoResp
    /\ req' = NoReq
    /\ resp' = NoResp
    /\ UNCHANGED <<fs, pending, concVars>>

Next ==
    \/ EnvMkDir
    \/ EnvWriteFile
    \/ EnvRemove
    \/ GetIndex
    \/ GetApiVideos
    \/ GetManifestRoute
    \/ StatFile
    \/ SendStart
    \/ SendBody
    \/ GetTestMpd
    \/ GetStaticMount
    \/ GetUnrouted
    \/ Done

Spec == Init /\ [][Next]_vars

(***************************************************************************)
(* SpecConc: listing requests handled by several workers, one system call  *)
(* at a time, while another process changes the tree                       *)
(***************************************************************************)
ConcDirPaths == {At(<<videos, ab>>), At(<<videos, a_c>>)}
ConcFilePaths == {At(<<videos, ab, Manifest(ab)>>), At(<<videos, a_c, Manifest(a_c)>>)}
\* Worker 1 answers GET /, worker 2 GET /api/videos.
ListingPath(w) == IF w = 1 THEN Slash ELSE Url(<<api, videos>>)

specVars == <<req, resp, pending>>

\* The directories whose manifest exists in f.
WithMaster(f) == {d \in {ab, a_c} : HasMaster(f, d)}

\* History: what existed at some moment of each request in flight.
LiveAfter(pcNew, fsNew) ==
    [w \in Workers |->
        IF pcNew[w] = "idle" THEN {}
        ELSE (IF pc[w] = "idle" THEN {} ELSE live[w]) \cup WithMaster(fsNew)]

\* Mutant: videos_data is a list shared by the workers, never emptied.
SharedVideosData(w) == videos_data[CHOOSE v \in Workers : v # w]

\* videos_data = [] (lines 51 and 263): a list of the request's own.
NewVideosData(w) == <<>>

ConcMkDir ==
    /\ \E p \in ConcDirPaths : MkDir(p)
    /\ live' = LiveAfter(pc, fs')
    /\ UNCHANGED <<specVars, pc, creq, listing, video_dirs, videos_data, cresp, observed>>

ConcWriteFile ==
    /\ \E p \in ConcFilePaths : WriteFile(p, <<1>>)
    /\ live' = LiveAfter(pc, fs')
    /\ UNCHANGED <<specVars, pc, creq, listing, video_dirs, videos_data, cresp, observed>>

ConcRemove ==
    /\ \E p \in ConcDirPaths \cup ConcFilePaths : Remove(p)
    /\ live' = LiveAfter(pc, fs')
    /\ UNCHANGED <<specVars, pc, creq, listing, video_dirs, videos_data, cresp, observed>>

\* A worker takes a listing request.
Accept(w) ==
    /\ pc[w] = "idle"
    /\ creq' = [creq EXCEPT ![w] = Request(ListingPath(w), http, LocalHost, NoOrigin, FALSE, <<>>)]
    /\ pc' = [pc EXCEPT ![w] = "listdir"]
    /\ live' = LiveAfter(pc', fs)
    /\ UNCHANGED <<fs, specVars, listing, video_dirs, videos_data, cresp, observed>>

\* os.listdir("videos") (lines 48 and 261)
Listdir(w) ==
    /\ pc[w] = "listdir"
    /\ \E listed \in Orders(ListDir(fs, videos)) :
          listing' = [listing EXCEPT ![w] = listed]
    /\ video_dirs' = [video_dirs EXCEPT ![w] = <<>>]
    /\ pc' = [pc EXCEPT ![w] = "filter"]
    /\ live' = LiveAfter(pc', fs)
    /\ UNCHANGED <<fs, specVars, creq, videos_data, cresp, observed>>

\* One os.path.isdir of the list comprehension (lines 48 and 261)
Isdir(w) ==
    /\ pc[w] = "filter"
    /\ listing[w] # <<>>
    /\ LET d == Head(listing[w])
           keep == IF Route(creq[w].path) = "render_videos"
                   THEN RenderKeeps(fs, d) ELSE ApiKeeps(fs, d)
       IN video_dirs' = [video_dirs EXCEPT ![w] = IF keep THEN Append(@, d) ELSE @]
    /\ listing' = [listing EXCEPT ![w] = Tail(@)]
    /\ live' = LiveAfter(pc, fs)
    /\ UNCHANGED <<fs, specVars, pc, creq, videos_data, cresp, observed>>

\* The comprehension is exhausted; videos_data = [] (lines 51 and 263)
BeginLoop(w) ==
    /\ pc[w] = "filter"
    /\ listing[w] = <<>>
    /\ videos_data' = [videos_data EXCEPT ![w] = NewVideosData(w)]
    /\ observed' = [observed EXCEPT ![w] = <<>>]
    /\ pc' = [pc EXCEPT ![w] = "scan"]
    /\ live' = LiveAfter(pc', fs)
    /\ UNCHANGED <<fs, specVars, creq, listing, video_dirs, cresp>>

\* One iteration of the loop: os.path.exists(master_mpd) and the append
\* (lines 52-62 and 264-274)
CheckMaster(w) ==
    /\ pc[w] = "scan"
    /\ video_dirs[w] # <<>>
    /\ LET d == Head(video_dirs[w]) IN
       /\ videos_data' = [videos_data EXCEPT ![w] =
                             IF HasMaster(fs, d) THEN Append(@, Entry(d)) ELSE @]
       /\ observed' = [observed EXCEPT ![w] =
                             Append(@, [dir |-> d, present |-> HasMaster(fs, d)])]
    /\ video_dirs' = [video_dirs EXCEPT ![w] = Tail(@)]
    /\ live' = LiveAfter(pc, fs)
    /\ UNCHANGED <<fs, specVars, pc, creq, listing, cresp>>

\* The sort and the return (lines 65-247 and 276-277)
Return(w) ==
    /\ pc[w] = "scan"
    /\ video_dirs[w] = <<>>
    /\ cresp' = [cresp EXCEPT ![w] =
                    IF Route(creq[w].path) = "render_videos"
                    THEN HtmlPage(SortByName(videos_data[w]))
                    ELSE JsonList(SortByName(videos_data[w]))]
    /\ pc' = [pc EXCEPT ![w] = "done"]
    /\ live' = LiveAfter(pc', fs)
    /\ UNCHANGED <<fs, specVars, creq, listing, video_dirs, videos_data, observed>>

\* The response has been sent and the locals of the call are gone.
Finish(w) ==
    /\ pc[w] = "done"
    /\ pc' = [pc EXCEPT ![w] = "idle"]
    /\ creq' = [creq EXCEPT ![w] = NoReq]
    /\ cresp' = [cresp EXCEPT ![w] = NoResp]
    /\ videos_data' = [videos_data EXCEPT ![w] = <<>>]
    /\ observed' = [observed EXCEPT ![w] = <<>>]
    /\ live' = LiveAfter(pc', fs)
    /\ UNCHANGED <<fs, specVars, listing, video_dirs>>

NextConc ==
    \/ ConcMkDir
    \/ ConcWriteFile
    \/ ConcRemove
    \/ \E w \in Workers : Accept(w)
    \/ \E w \in Workers : Listdir(w)
    \/ \E w \in Workers : Isdir(w)
    \/ \E w \in Workers : BeginLoop(w)
    \/ \E w \in Workers : CheckMaster(w)
    \/ \E w \in Workers : Return(w)
    \/ \E w \in Workers : Finish(w)

SpecConc == Init /\ [][NextConc]_vars

(***************************************************************************)
(* Properties                                                              *)
(***************************************************************************)
IsListing(r) == r.status # 0 /\ r.responder \in {"render_videos", "get_videos_list"}

\* The directory a manifest URL names: its last path segment but one.
DirOfUrl(url) == LET segs == Split(url) IN segs[Len(segs) - 1]

\* The names of a listing response, in order: the JSON entries' names, or the
\* directories the page's cards point at.
CatalogNames(r) ==
    IF r.responder = "render_videos"
    THEN [i \in 1..Len(r.cards) |-> DirOfUrl(r.cards[i].mpd_file)]
    ELSE [i \in 1..Len(r.videos) |-> r.videos[i].name]

CatalogUrls(r) ==
    IF r.responder = "render_videos"
    THEN [i \in 1..Len(r.cards) |-> r.cards[i].mpd_file]
    ELSE [i \in 1..Len(r.videos) |-> r.videos[i].mpd_file]

Occurrences(names, d) == Cardinality({i \in 1..Len(names) : names[i] = d})

\* Every name that occurs anywhere in the modelled tree.
AllNames == {Last(p) : p \in Paths}

\* The two segments of a request the manifest route answers.
VideoName(rq) == Split(rq.path)[3]
MpdFile(rq) == Split(rq.path)[4]
IsManifestRequest(rq, r) == r.status # 0 /\ r.responder = "serve_mpd"

\* C1: a directory named "export" under the videos root is never in the
\* catalog of either listing operation, whatever it contains.
C1_ReservedNeverListed ==
    IsListing(resp) => Occurrences(CatalogNames(resp), export) = 0

\* C2: for every name d other than the reserved one, a listing has exactly
\* one entry named d when videos/d is a directory that holds d.mpd, and none
\* otherwise (d missing, a plain file, a directory without d.mpd, or a
\* directory of the second level).
C2_CatalogMatchesManifests ==
    IsListing(resp) =>
        \A d \in AllNames \ {export} :
            Occurrences(CatalogNames(resp), d) =
                IF /\ fs[At(<<videos>>)] = DirNode
                   /\ At(<<videos, d>>) \in Paths /\ fs[At(<<videos, d>>)] = DirNode
                   /\ At(<<videos, d, Manifest(d)>>) \in Paths
                   /\ fs[At(<<videos, d, Manifest(d)>>)] # NoNode
                THEN 1 ELSE 0

C2_Witness ==
    /\ IsListing(resp)
    /\ Occurrences(CatalogNames(resp), ab) = 1
    /\ fs[At(<<videos, ab, nn, Manifest(nn)>>)].kind = "file"
    /\ fs[At(<<videos, a_c>>)].kind = "file"

\* C3: the names of a listing are in strictly ascending order, whatever
\* order os.listdir returned them in.
C3_SortedByName ==
    IsListing(resp) =>
        \A i \in 1..(Len(CatalogNames(resp)) - 1) :
            StrLess(CatalogNames(resp)[i], CatalogNames(resp)[i + 1])

C3_Witness ==
    /\ IsListing(resp)
    /\ Len(CatalogNames(resp)) >= 2
    /\ \E i \in 1..(Len(req.listdir) - 1) : StrLess(req.listdir[i + 1], req.listdir[i])

\* C4: the manifest URL of every entry of a listing is
\* <scheme>://<host>/videos/d/d.mpd with the scheme and host of the request.
C4_UrlFromRequest ==
    IsListing(resp) =>
        \A i \in 1..Len(CatalogNames(resp)) :
            CatalogUrls(resp)[i] =
                ManifestUrl(req.scheme \o SchemeSep \o req.host, CatalogNames(resp)[i])

\* C5: the manifest route answers 404 whenever mpd_file does not end in
\* ".mpd", whether or not the file exists.
C5_ExtensionMismatchNotFound ==
    (IsManifestRequest(req, resp) /\ ~EndsWith(MpdFile(req), MpdExt)) => resp.status = 404

\* C6: no request below /videos is answered with the contents of a file
\* that lies outside the videos root.
C6_NoTraversal ==
    (resp.status = 200 /\ resp.responder \in {"serve_mpd", "static"} /\ resp.complete) =>
        IsPrefix(VideosRoot, resp.node)

\* C7: a request for videos/<folder>/<file>, <file> ending in ".mpd", is
\* answered 404 without content when nothing is at that place of the tree
\* at the moment the handler runs.
C7_MissingManifestNotFound ==
    (/\ Route(req.path) = "serve_mpd"
     /\ EndsWith(MpdFile(req), MpdExt)
     /\ req.target = NoNode)
    => (/\ pending = NoPending
        /\ resp.status = 404 /\ resp.body = <<>> /\ resp.node = Missing)

C7_Witness ==
    /\ IsManifestRequest(req, resp)
    /\ VideoName(req) = ab
    /\ MpdFile(req) = Manifest(ab)
    /\ fs[At(<<videos, ab>>)] = DirNode
    /\ fs[At(<<videos, ab, seg>>)].kind = "file"
    /\ req.target = NoNode
    /\ resp.status = 404

HeaderValues(r, name) == {h[2] : h \in {x \in r.headers : x[1] = name}}
IsOwnManifestRequest(rq, r) ==
    /\ IsManifestRequest(rq, r)
    /\ MpdFile(rq) = Manifest(VideoName(rq))
    /\ At(<<videos, VideoName(rq), MpdFile(rq)>>) \in Paths

\* C8 as stated: whenever the file videos/<folder>/<folder>.mpd exists at
\* request time, the answer is 200 with the file's bytes, Cache-Control and
\* Access-Control-Allow-Origin: *, also for a request without an Origin header.
C8_Original ==
    (/\ IsOwnManifestRequest(req, resp)
     /\ req.target.kind = "file")
    => /\ resp.status = 200
       /\ resp.body = req.target.bytes
       /\ HeaderValues(resp, "Cache-Control") # {}
       /\ HeaderValues(resp, "Access-Control-Allow-Origin") = {"*"}

\* C8 as amended: whenever something is at videos/<folder>/<folder>.mpd when
\* the handler runs, a regular file is there when the sending stats it and a
\* regular file is there when the sending opens it, the answer is 200 with
\* the Content-Length the stat found, the bytes the file has when it is read
\* and Cache-Control; it carries Access-Control-Allow-Origin exactly when the
\* request carries an Origin header, with the value * for a request without
\* a cookie and the request's origin for one with a cookie.
C8_ManifestServed ==
    (/\ IsOwnManifestRequest(req, resp)
     /\ req.target # NoNode
     /\ req.statted.kind = "file"
     /\ fs[At(<<videos, VideoName(req), MpdFile(req)>>)].kind = "file")
    => /\ resp.status = 200
       /\ resp.complete
       /\ resp.content_length \in {Len(c) : c \in Contents}
       /\ resp.body = fs[At(<<videos, VideoName(req), MpdFile(req)>>)].bytes
       /\ HeaderValues(resp, "Cache-Control") = {"no-cache, no-store, must-revalidate"}
       /\ HeaderValues(resp, "Access-Control-Allow-Origin") =
            IF req.origin = NoOrigin THEN {}
            ELSE IF req.cookie THEN {req.origin} ELSE {"*"}

\* The manifest of ab was rewritten twice while it was being sent: after the
\* handler's test and again after the stat, so that the Content-Length is
\* that of a content the body is not.  The request carries an Origin header
\* and no cookie.
C8_Witness ==
    /\ IsOwnManifestRequest(req, resp)
    /\ VideoName(req) = ab
    /\ req.target = FileNode(<<1>>)
    /\ fs[At(<<videos, ab, Manifest(ab)>>)] = FileNode(<<MaxByte>>)
    /\ MaxByte > 1
    /\ req.origin # NoOrigin
    /\ ~req.cookie
    /\ resp.status = 200
    /\ resp.content_length = Len(LongContent)
    /\ resp.body = <<MaxByte>>

\* C9: a request /videos/<folder>/<file> for an existing file whose name does
\* not end in ".mpd" is answered by the static mount, with the file's bytes.
C9_SegmentsByStaticMount ==
    (/\ resp.status # 0
     /\ Len(Split(req.path)) = 4
     /\ Split(req.path)[2] = videos
     /\ ~EndsWith(MpdFile(req), MpdExt)
     /\ At(<<videos, VideoName(req), MpdFile(req)>>) \in Paths
     /\ fs[At(<<videos, VideoName(req), MpdFile(req)>>)].kind = "file")
    => /\ resp.responder = "static"
       /\ resp.status = 200
       /\ resp.body = fs[At(<<videos, VideoName(req), MpdFile(req)>>)].bytes

\* What a worker's own os.path.exists calls found, as entries in call order.
OwnEntries(w) ==
    LET Present(o) == o.present
        seen == SelectSeq(observed[w], Present)
    IN [i \in 1..Len(seen) |-> Entry(seen[i].dir)]

\* C10: under any interleaving of changes of the tree with concurrent listing
\* requests, a response holds exactly the directories whose manifest that
\* request's own checks found, in name order, each of them one whose manifest
\* existed at some moment of the request; what another request collected
\* never shows in it.
C10_OwnScanOnly ==
    \A w \in Workers :
        pc[w] = "done" =>
            /\ CatalogNames(cresp[w]) =
                   [i \in 1..Len(OwnEntries(w)) |-> SortByName(OwnEntries(w))[i].name]
            /\ \A i \in 1..Len(CatalogNames(cresp[w])) : CatalogNames(cresp[w])[i] \in live[w]

\* Both workers have answered, one with ab and one without, and ab's
\* manifest is gone again.
C10_Witness ==
    /\ pc[1] = "done" /\ pc[2] = "done"
    /\ CatalogNames(cresp[1]) = <<ab>>
    /\ CatalogNames(cresp[2]) = <<a_c>>
    /\ fs[At(<<videos, ab, Manifest(ab)>>)] = NoNode

====
